---- MODULE Spec2Model ----
(***************************************************************************)
(* Model of example.py: the module-level functions add, divide, find_max,  *)
(* is_valid_email and factorial, and the Calculator class.                 *)
(*                                                                         *)
(* Numbers are exact rationals [num, den] (den > 0): Python ints are the   *)
(* rationals of denominator 1, and the floats that occur are dyadic        *)
(* rationals.  True division rounds its quotient to MantBits significant   *)
(* bits (IEEE round-half-even; CPython's float has 53 bits, the model      *)
(* keeps the rounding and bounds the width).  Strings are sequences of     *)
(* one-character strings.                                                  *)
(***************************************************************************)
EXTENDS Integers, Sequences, FiniteSets, TLC

\* ---------------------------------------------------------------- bounds
\* Largest magnitude of a number handed to add, divide and find_max.
MaxInt == 3
\* Longest list handed to find_max.
MaxList == 3
\* Longest generated string handed to is_valid_email.
MaxLen == 4
\* Largest argument handed to factorial.
MaxN == 7
\* Number of Calculator method calls in one run.
MaxCalls == 3
\* Significant bits of a float.
MantBits == 8

VARIABLES
    calc,     \* Calculator instance -> its result field
    log,      \* the caller's record of the method calls made, each with its return value
    fn,       \* the module-level function the caller calls
    args,     \* the arguments of that call
    out,      \* the outcome of that call: pending, returned (val) or raised (err)
    stack,    \* factorial's call stack while it runs: the argument of each active call
    fpc,      \* where factorial's run is: "idle", "call", "return", "done", "raised"
    acc,      \* the value being returned up factorial's stack
    depth     \* the largest number of nested factorial calls seen in the run

vars == <<calc, log, fn, args, out, stack, fpc, acc, depth>>

\* ------------------------------------------------------ numbers (rationals)
Rat(n, d) == [num |-> n, den |-> d]
Int2Rat(k) == Rat(k, 1)
Abs(k) == IF k < 0 THEN -k ELSE k

REq(x, y) == x.num * y.den = y.num * x.den
RLt(x, y) == x.num * y.den < y.num * x.den
RLe(x, y) == x.num * y.den <= y.num * x.den
RAdd(x, y) == Rat(x.num * y.den + y.num * x.den, x.den * y.den)
RSub(x, y) == Rat(x.num * y.den - y.num * x.den, x.den * y.den)
RMul(x, y) == Rat(x.num * y.num, x.den * y.den)

RECURSIVE Pow2(_)
Pow2(k) == IF k = 0 THEN 1 ELSE 2 * Pow2(k - 1)

\* ------------------------------------------------------- call outcomes
Pending == [status |-> "pending"]
Return(v) == [status |-> "returned", val |-> v]
Raise(msg) == [status |-> "raised", err |-> msg]

\* ----------------------------------------------------------- add (l.4-6)
add(a, b) == RAdd(a, b)

\* -------------------------------------------------------- divide (l.8-12)
\* The float nearest to the positive quotient N/D: N and D are scaled by powers
\* of two until the quotient has MantBits integer bits, then rounded half-even.
RECURSIVE Scale(_, _)
Scale(N, D) ==
    IF N < Pow2(MantBits - 1) * D THEN Scale(2 * N, D)
    ELSE IF N >= Pow2(MantBits) * D THEN Scale(N, 2 * D)
    ELSE <<N, D>>

RoundHalfEven(N, D) ==
    LET q == N \div D
        r == N % D
    IN  IF 2 * r < D THEN q
        ELSE IF 2 * r > D THEN q + 1
        ELSE IF q % 2 = 0 THEN q ELSE q + 1

\* a // b: floor division in place of true division
FloorDiv(a, b) ==
    LET n == a.num * b.den
        d == a.den * b.num
        sign == IF d < 0 THEN -1 ELSE 1
    IN  Rat((sign * n) \div (sign * d), 1)

\* Python's a / b for b # 0: the exact quotient rounded once to a float.
TrueDiv(a, b) ==
    LET n == a.num * b.den
        d == a.den * b.num
        N == Abs(n)
        D == Abs(d)
        sd == Scale(N, D)
        m == RoundHalfEven(sd[1], sd[2])
        sign == IF (n < 0) = (d < 0) THEN 1 ELSE -1
    IN  IF n = 0 THEN Rat(0, 1)
        ELSE Rat(sign * m * (sd[2] \div D), sd[1] \div N)

DivideByZeroMsg == "Cannot divide by zero"

divide(a, b) ==
    IF REq(b, Int2Rat(0)) THEN Raise(DivideByZeroMsg)
    ELSE Return(TrueDiv(a, b))

\* ----------------------------------------------------- find_max (l.14-18)
\* The builtin max: the first item, replaced by each later item greater than it.
RECURSIVE max_iter(_, _)
max_iter(best, rest) ==
    IF rest = <<>> THEN best
    ELSE max_iter(IF RLt(best, Head(rest)) THEN Head(rest) ELSE best, Tail(rest))

\* max that stops at the first item
max_first(numbers) == Head(numbers)

max(numbers) == max_iter(Head(numbers), Tail(numbers))

EmptyListMsg == "List cannot be empty"

find_max(numbers) ==
    IF numbers = <<>> THEN Raise(EmptyListMsg)
    ELSE Return(max(numbers))

\* ----------------------------------------------- is_valid_email (l.20-27)
\* c in s
Contains(c, s) == \E i \in 1..Len(s) : s[i] = c

\* s.split(sep) for a one-character sep
RECURSIVE split(_, _)
split(s, sep) ==
    IF ~Contains(sep, s) THEN <<s>>
    ELSE LET i == CHOOSE k \in 1..Len(s) :
                      s[k] = sep /\ \A j \in 1..(k - 1) : s[j] # sep
         IN  <<SubSeq(s, 1, i - 1)>> \o split(SubSeq(s, i + 1, Len(s)), sep)

\* l.22: not email or '@' not in email or '.' not in email
EmailQuickReject(email) ==
    email = <<>> \/ ~Contains("@", email) \/ ~Contains(".", email)

\* the l.25 check left out
WrongPartCount_unchecked(parts) == FALSE

\* l.25: len(parts) != 2
WrongPartCount(parts) == Len(parts) # 2

is_valid_email(email) ==
    IF EmailQuickReject(email) THEN Return(FALSE)
    ELSE LET parts == split(email, "@")
         IN  IF WrongPartCount(parts) THEN Return(FALSE)
             ELSE Return(Contains(".", parts[2]))

\* ---------------------------------------------------- factorial (l.29-35)
NegativeMsg == "Factorial not defined for negative numbers"

\* l.31: n < 0
FactNegative(n) == RLt(n, Int2Rat(0))

\* the base case without n == 0
FactBase_only_one(n) == REq(n, Int2Rat(1))

\* the base case without n == 1
FactBase_only_zero(n) == REq(n, Int2Rat(0))

\* l.33: n == 0 or n == 1
FactBase(n) == REq(n, Int2Rat(0)) \/ REq(n, Int2Rat(1))

\* l.35: n - 1
FactPred(n) == RSub(n, Int2Rat(1))

RECURSIVE factorial(_)
factorial(n) ==
    IF FactNegative(n) THEN Raise(NegativeMsg)
    ELSE IF FactBase(n) THEN Return(Int2Rat(1))
    ELSE LET r == factorial(FactPred(n))
         IN  IF r.status = "raised" THEN r
             ELSE Return(RMul(n, r.val))

\* ------------------------------------------------ Calculator (l.37-56)
Instances == {"c1", "c2"}
\* The values the caller passes to add and subtract.
Values == {-3, 2, 5, 10}

\* l.40-41: __init__
Calculator_init == [result |-> 0]

\* add that returns the result it found, not the one it stored
Calculator_add_returns_old(self, value) ==
    LET updated == [self EXCEPT !.result = self.result + value]
    IN  [self |-> updated, ret |-> self.result]

\* l.43-46: add; the new object state and the value returned
Calculator_add(self, value) ==
    LET updated == [self EXCEPT !.result = self.result + value]
    IN  [self |-> updated, ret |-> updated.result]

\* subtract that adds
Calculator_subtract_adds(self, value) ==
    LET updated == [self EXCEPT !.result = self.result + value]
    IN  [self |-> updated, ret |-> updated.result]

\* l.48-51: subtract
Calculator_subtract(self, value) ==
    LET updated == [self EXCEPT !.result = self.result - value]
    IN  [self |-> updated, ret |-> updated.result]

\* reset that leaves the result as it is
Calculator_reset_keeps(self) == [self |-> self, ret |-> self.result]

\* l.53-56: reset
Calculator_reset(self) ==
    LET updated == [self EXCEPT !.result = 0]
    IN  [self |-> updated, ret |-> updated.result]

\* result kept on the class: one value shared by every instance
StoreShared(objects, i, updated) == [j \in DOMAIN objects |-> updated]

\* self.result is an attribute of the instance: a method writes its own object only.
StoreSelf(objects, i, updated) == [objects EXCEPT ![i] = updated]

\* ------------------------------------------------------------- inputs
Numbers ==
    {Rat(k, 1) : k \in -MaxInt..MaxInt}
        \cup {Rat(k, 2) : k \in {j \in -(2 * MaxInt)..(2 * MaxInt) : j % 2 = 1}}

ListItems == {Rat(k, 1) : k \in -MaxInt..MaxInt}
Lists == UNION {[1..k -> ListItems] : k \in 0..MaxList}

Alphabet == {"a", "@", "."}
SpecEmails ==
    { <<"a", "@", "b", ".", "c", "o", "m">>,
      <<"n", "o", "-", "a", "t", "-", "s", "i", "g", "n", ".", "c", "o", "m">>,
      <<"a", "@", "b", "@", "c", ".", "c", "o", "m">>,
      <<"a", "@", "b", "c", "o", "m">>,
      <<"a", ".", "b", "@", "c", "o", "m">> }
Emails == UNION {[1..k -> Alphabet] : k \in 0..MaxLen} \cup SpecEmails

\* ints and floats, negative ones and halves among them
FactInputs == {Rat(k, d) : k \in -2..MaxN, d \in {1, 2}}

NoArgs ==
    [a |-> Int2Rat(0), b |-> Int2Rat(0), numbers |-> <<>>, email |-> <<>>,
     n |-> Int2Rat(0)]

FunCalls ==
    {[fn |-> "add", args |-> [NoArgs EXCEPT !.a = x, !.b = y]] :
        x \in Numbers, y \in Numbers}
    \cup {[fn |-> "divide", args |-> [NoArgs EXCEPT !.a = x, !.b = y]] :
        x \in Numbers, y \in Numbers}
    \cup {[fn |-> "find_max", args |-> [NoArgs EXCEPT !.numbers = l]] : l \in Lists}
    \cup {[fn |-> "is_valid_email", args |-> [NoArgs EXCEPT !.email = e]] : e \in Emails}
    \cup {[fn |-> "factorial", args |-> [NoArgs EXCEPT !.n = x]] : x \in FactInputs}

\* One call of each function, for the runs that interleave them with Calculator calls.
ExampleCalls ==
    { [fn |-> "add", args |-> [NoArgs EXCEPT !.a = Int2Rat(2), !.b = Int2Rat(3)]],
      [fn |-> "divide", args |-> [NoArgs EXCEPT !.a = Int2Rat(1), !.b = Int2Rat(0)]],
      [fn |-> "find_max", args |-> [NoArgs EXCEPT !.numbers =
          <<Int2Rat(3), Int2Rat(1), Int2Rat(4), Int2Rat(1), Int2Rat(5)>>]],
      [fn |-> "is_valid_email", args |-> [NoArgs EXCEPT !.email =
          <<"a", "@", "b", ".", "c", "o", "m">>]],
      [fn |-> "factorial", args |-> [NoArgs EXCEPT !.n = Int2Rat(5)]] }

\* ------------------------------------------------------ initial states
CalcInit ==
    /\ calc = [i \in Instances |-> Calculator_init]
    /\ log = <<>>

FactIdle ==
    /\ stack = <<>>
    /\ fpc = "idle"
    /\ acc = Int2Rat(0)
    /\ depth = 0

\* Two fresh Calculators and one module-level call to make.
Init ==
    /\ CalcInit
    /\ FactIdle
    /\ \E c \in ExampleCalls : fn = c.fn /\ args = c.args
    /\ out = Pending

\* One module-level call, of any function on any input.
InitFun ==
    /\ CalcInit
    /\ FactIdle
    /\ \E c \in FunCalls : fn = c.fn /\ args = c.args
    /\ out = Pending

\* One call of factorial, run step by step.
InitFact ==
    /\ CalcInit
    /\ FactIdle
    /\ fn = "factorial"
    /\ \E x \in FactInputs : args = [NoArgs EXCEPT !.n = x]
    /\ out = Pending

\* --------------------------------------------- module-level calls (actions)
calcVars == <<calc, log>>
factVars == <<stack, fpc, acc, depth>>

CallAdd ==
    /\ fn = "add" /\ out.status = "pending"
    /\ out' = Return(add(args.a, args.b))
    /\ UNCHANGED <<fn, args, calcVars, factVars>>

CallDivide ==
    /\ fn = "divide" /\ out.status = "pending"
    /\ out' = divide(args.a, args.b)
    /\ UNCHANGED <<fn, args, calcVars, factVars>>

CallFindMax ==
    /\ fn = "find_max" /\ out.status = "pending"
    /\ out' = find_max(args.numbers)
    /\ UNCHANGED <<fn, args, calcVars, factVars>>

CallIsValidEmail ==
    /\ fn = "is_valid_email" /\ out.status = "pending"
    /\ out' = is_valid_email(args.email)
    /\ UNCHANGED <<fn, args, calcVars, factVars>>

CallFactorial ==
    /\ fn = "factorial" /\ out.status = "pending" /\ fpc = "idle"
    /\ out' = factorial(args.n)
    /\ UNCHANGED <<fn, args, calcVars, factVars>>

NextFun ==
    \/ CallAdd
    \/ CallDivide
    \/ CallFindMax
    \/ CallIsValidEmail
    \/ CallFactorial

SpecFun == InitFun /\ [][NextFun]_vars

\* ------------------------------------------------ Calculator calls (actions)
Record(i, op, value, r) ==
    Append(log, [inst |-> i, op |-> op, value |-> value, ret |-> r.ret])

CallCalcAdd(i, value) ==
    /\ Len(log) < MaxCalls
    /\ LET r == Calculator_add(calc[i], value)
       IN  /\ calc' = StoreSelf(calc, i, r.self)
           /\ log' = Record(i, "add", value, r)
    /\ UNCHANGED <<fn, args, out, factVars>>

CallCalcSubtract(i, value) ==
    /\ Len(log) < MaxCalls
    /\ LET r == Calculator_subtract(calc[i], value)
       IN  /\ calc' = StoreSelf(calc, i, r.self)
           /\ log' = Record(i, "subtract", value, r)
    /\ UNCHANGED <<fn, args, out, factVars>>

CallCalcReset(i) ==
    /\ Len(log) < MaxCalls
    /\ LET r == Calculator_reset(calc[i])
       IN  /\ calc' = StoreSelf(calc, i, r.self)
           /\ log' = Record(i, "reset", 0, r)
    /\ UNCHANGED <<fn, args, out, factVars>>

Next ==
    \/ \E i \in Instances, v \in Values : CallCalcAdd(i, v)
    \/ \E i \in Instances, v \in Values : CallCalcSubtract(i, v)
    \/ \E i \in Instances : CallCalcReset(i)
    \/ NextFun

Spec == Init /\ [][Next]_vars

\* ------------------------------------- factorial, step by step (l.29-35)
Top == stack[Len(stack)]
Max2(x, y) == IF x < y THEN y ELSE x

\* the caller's call factorial(args.n)
FactEnter ==
    /\ fpc = "idle" /\ out.status = "pending"
    /\ stack' = <<args.n>>
    /\ fpc' = "call"
    /\ depth' = 1
    /\ UNCHANGED <<acc, fn, args, out, calcVars>>

\* l.31-32: the innermost call raises; no caller catches, so the whole call fails
FactRaise ==
    /\ fpc = "call" /\ FactNegative(Top)
    /\ fpc' = "raised"
    /\ out' = Raise(NegativeMsg)
    /\ UNCHANGED <<stack, acc, depth, fn, args, calcVars>>

\* l.33-34: the innermost call returns 1
FactBaseCase ==
    /\ fpc = "call" /\ ~FactNegative(Top) /\ FactBase(Top)
    /\ acc' = Int2Rat(1)
    /\ fpc' = "return"
    /\ UNCHANGED <<stack, depth, fn, args, out, calcVars>>

\* l.35: the innermost call calls factorial(n - 1)
FactRecurse ==
    /\ fpc = "call" /\ ~FactNegative(Top) /\ ~FactBase(Top)
    /\ stack' = Append(stack, FactPred(Top))
    /\ depth' = Max2(depth, Len(stack'))
    /\ UNCHANGED <<fpc, acc, fn, args, out, calcVars>>

\* l.35: a call returns to its caller, which multiplies by its own n
FactMultiply ==
    /\ fpc = "return" /\ Len(stack) > 1
    /\ stack' = SubSeq(stack, 1, Len(stack) - 1)
    /\ acc' = RMul(stack[Len(stack) - 1], acc)
    /\ UNCHANGED <<fpc, depth, fn, args, out, calcVars>>

\* the outermost call returns to the caller
FactFinish ==
    /\ fpc = "return" /\ Len(stack) = 1
    /\ stack' = <<>>
    /\ fpc' = "done"
    /\ out' = Return(acc)
    /\ UNCHANGED <<acc, depth, fn, args, calcVars>>

NextFact ==
    \/ FactEnter
    \/ FactRaise
    \/ FactBaseCase
    \/ FactRecurse
    \/ FactMultiply
    \/ FactFinish

\* The interpreter runs a started call to its end: a step that can be taken is taken.
SpecFact == InitFact /\ [][NextFact]_vars /\ WF_vars(NextFact)

\* ======================================================= Calculator claims
\* The positions in the log of the calls made on instance i.
CallsOn(i) == {k \in 1..Len(log) : log[k].inst = i}
\* The calls made on instance i, in order.
CallSeq(i) == SelectSeq(log, LAMBDA e : e.inst = i)
\* The position of the most recent reset() of instance i, 0 when there is none.
LastReset(i) ==
    LET R == {k \in CallsOn(i) : log[k].op = "reset"}
    IN  IF R = {} THEN 0 ELSE CHOOSE k \in R : \A j \in R : j <= k
\* The add (or subtract) calls on instance i after its most recent reset.
Since(i, op) == {k \in CallsOn(i) : k > LastReset(i) /\ log[k].op = op}

RECURSIVE SumValues(_)
SumValues(S) ==
    IF S = {} THEN 0
    ELSE LET k == CHOOSE x \in S : TRUE
         IN  log[k].value + SumValues(S \ {k})

\* C1: in every reachable state, each Calculator's result is the sum of the values
\* passed to add minus the sum of the values passed to subtract, over the calls made
\* on it after its most recent reset() (or since construction).
C1_ResultIsSumSinceReset ==
    \A i \in Instances :
        calc[i].result = SumValues(Since(i, "add")) - SumValues(Since(i, "subtract"))

\* An instance that was used, then reset, then added to: the calls before the reset
\* no longer count.
C1_Witness ==
    \E i \in Instances :
        /\ LastReset(i) > 1
        /\ \E j \in CallsOn(i) : j < LastReset(i) /\ log[j].op = "subtract"
        /\ Since(i, "add") # {}
        /\ calc[i].result # 0

\* C2: an instance nothing was called on has result 0; every reset() returns 0, and
\* an instance whose latest call is reset() has result 0, whatever it held before.
C2_ResetGivesZero ==
    /\ \A i \in Instances : CallsOn(i) = {} => calc[i].result = 0
    /\ \A k \in 1..Len(log) : log[k].op = "reset" => log[k].ret = 0
    /\ \A i \in Instances :
           (LastReset(i) # 0 /\ \A j \in CallsOn(i) : j <= LastReset(i))
               => calc[i].result = 0

\* A reset() of an instance that held a non-zero result, with nothing called on it since.
C2_Witness ==
    \E i \in Instances :
        /\ LastReset(i) > 1
        /\ \A j \in CallsOn(i) : j <= LastReset(i)
        /\ \E j \in CallsOn(i) : j < LastReset(i) /\ log[j].ret # 0
        /\ \E j \in Instances : CallsOn(j) = {}

\* The call a step makes, when it makes a Calculator call.
NewCall == log'[Len(log')]

\* C3: every add(value) returns the old result plus value, every subtract(value) the
\* old result minus value, and the value returned is the result field as stored by
\* the call; on a new instance add(5), subtract(2), add(10) return 5, 3, 13.
C3_ReturnsNewResult ==
    /\ [][Len(log') = Len(log) + 1 =>
            /\ NewCall.op = "add" =>
                   NewCall.ret = calc[NewCall.inst].result + NewCall.value
            /\ NewCall.op = "subtract" =>
                   NewCall.ret = calc[NewCall.inst].result - NewCall.value
            /\ NewCall.ret = calc'[NewCall.inst].result]_vars
    /\ [](\A i \in Instances :
            LET s == CallSeq(i)
            IN  (/\ Len(s) >= 3
                 /\ s[1].op = "add" /\ s[1].value = 5
                 /\ s[2].op = "subtract" /\ s[2].value = 2
                 /\ s[3].op = "add" /\ s[3].value = 10)
                    => (s[1].ret = 5 /\ s[2].ret = 3 /\ s[3].ret = 13))

\* add(5), subtract(2), add(10) were called on a new instance.
C3_Witness ==
    \E i \in Instances :
        LET s == CallSeq(i)
        IN  /\ Len(s) = 3
            /\ s[1].op = "add" /\ s[1].value = 5
            /\ s[2].op = "subtract" /\ s[2].value = 2
            /\ s[3].op = "add" /\ s[3].value = 10
            /\ calc[i].result = 13

\* C9: a step changes the result of no instance but the one a Calculator method was
\* called on: a method call leaves every other instance as it was, and a call of a
\* module-level function leaves every instance as it was.
C9_OtherInstancesUnchanged ==
    [][\A i \in Instances :
          (Len(log') = Len(log) \/ NewCall.inst # i) => calc'[i] = calc[i]]_vars

\* Both instances hold results of their own, and the module-level call was made.
C9_Witness ==
    /\ calc["c1"].result # 0
    /\ calc["c2"].result # 0
    /\ calc["c1"].result # calc["c2"].result
    /\ out.status # "pending"

\* ================================================ module-level function claims
Called(f) == fn = f /\ out.status # "pending"
Zero == Int2Rat(0)

\* C4: a call fails only for divide with b = 0, find_max of an empty list and
\* factorial of a negative n, each with its message; every other call returns.
C4_OnlyListedInputsFail ==
    out.status = "raised" =>
        \/ fn = "divide" /\ REq(args.b, Zero) /\ out.err = DivideByZeroMsg
        \/ fn = "find_max" /\ args.numbers = <<>> /\ out.err = EmptyListMsg
        \/ fn = "factorial" /\ RLt(args.n, Zero) /\ out.err = NegativeMsg

\* The shape C5 states: non-empty, exactly one "@", and a "." somewhere after it.
AtPositions(email) == {k \in 1..Len(email) : email[k] = "@"}
ValidShape(email) ==
    /\ Len(email) > 0
    /\ Cardinality(AtPositions(email)) = 1
    /\ \E k \in AtPositions(email) : \E j \in (k + 1)..Len(email) : email[j] = "."

\* C5: is_valid_email returns true exactly for the strings that are non-empty, hold
\* exactly one "@" and hold a "." after it, and false for every other string.
C5_EmailShape ==
    Called("is_valid_email") =>
        /\ out.status = "returned"
        /\ out.val = ValidShape(args.email)

\* "a@b@c.com" was rejected: it has a "." after an "@", and two "@".
C5_Witness ==
    /\ Called("is_valid_email")
    /\ args.email = <<"a", "@", "b", "@", "c", ".", "c", "o", "m">>
    /\ out = Return(FALSE)

\* lo * (lo + 1) * ... * hi, 1 when the range is empty
RECURSIVE ProductOfRange(_, _)
ProductOfRange(lo, hi) == IF lo > hi THEN 1 ELSE lo * ProductOfRange(lo + 1, hi)

IsInteger(x) == x.num % x.den = 0
IntegerOf(x) == x.num \div x.den

\* C6: for an integer n >= 0 factorial returns 1 * 2 * ... * n (1 for n = 0 and
\* n = 1, 120 for n = 5); for an integer n < 0 it raises and returns nothing.
C6_FactorialValue ==
    (Called("factorial") /\ IsInteger(args.n)) =>
        LET n == IntegerOf(args.n)
        IN  /\ n >= 0 =>
                  /\ out.status = "returned"
                  /\ REq(out.val, Int2Rat(ProductOfRange(1, n)))
            /\ n \in {0, 1} => REq(out.val, Int2Rat(1))
            /\ n = 5 => REq(out.val, Int2Rat(120))
            /\ n < 0 => out = Raise(NegativeMsg)

\* factorial(5) returned 120.
C6_Witness ==
    /\ Called("factorial")
    /\ args.n = Int2Rat(5)
    /\ out = Return(Int2Rat(120))

\* C7: find_max raises for the empty list; for a non-empty list it returns an item
\* of the list that no item exceeds; and the call leaves the list as it was.
C7_FindMax ==
    /\ [](Called("find_max") =>
            IF args.numbers = <<>> THEN out = Raise(EmptyListMsg)
            ELSE /\ out.status = "returned"
                 /\ \E k \in 1..Len(args.numbers) : args.numbers[k] = out.val
                 /\ \A k \in 1..Len(args.numbers) : RLe(args.numbers[k], out.val))
    /\ [][fn = "find_max" => args'.numbers = args.numbers]_vars

\* The maximum of a list that holds it twice, after a smaller item.
C7_Witness ==
    /\ Called("find_max")
    /\ Len(args.numbers) = 3
    /\ RLt(args.numbers[1], args.numbers[2])
    /\ args.numbers[2] = args.numbers[3]
    /\ out = Return(args.numbers[2])

\* C8: divide raises exactly when b = 0. Otherwise it returns a quotient q with
\* q * b = a when a and b are integers and b divides a, and with q * b within
\* |a| / 2^MantBits of a (one rounding of the quotient) in every case.
C8_Divide ==
    Called("divide") =>
        /\ (out.status = "raised") = REq(args.b, Zero)
        /\ out.status = "raised" => out.err = DivideByZeroMsg
        /\ out.status = "returned" =>
              LET a == args.a
                  b == args.b
                  diff == RSub(RMul(out.val, b), a)
              IN  /\ (a.den = 1 /\ b.den = 1 /\ a.num % Abs(b.num) = 0) => diff.num = 0
                  /\ Abs(diff.num) * Pow2(MantBits) * a.den <= Abs(a.num) * diff.den

\* A quotient that is no float: divide returned its rounding.
C8_Witness ==
    /\ Called("divide")
    /\ args.a = Int2Rat(1) /\ args.b = Int2Rat(3)
    /\ out.status = "returned"
    /\ ~REq(RMul(out.val, args.b), args.a)

\* ===================================================== factorial's recursion
\* The run is of factorial(n) for an integer n >= 0.
NonNegativeInteger == IsInteger(args.n) /\ args.n.num >= 0

\* C10: for an integer n >= 0 every recursive call has its caller's argument minus
\* one, no recursive call has an argument below 1, the negative-argument error is
\* never raised, max(n, 1) calls are nested, and the call returns.
C10_RecursionTerminates ==
    /\ [](NonNegativeInteger =>
            /\ \A k \in 2..Len(stack) :
                   /\ REq(stack[k], RSub(stack[k - 1], Int2Rat(1)))
                   /\ RLe(Int2Rat(1), stack[k])
            /\ fpc # "raised"
            /\ out.status # "raised"
            /\ fpc = "done" => depth = Max2(IntegerOf(args.n), 1))
    /\ (NonNegativeInteger ~> (fpc = "done" /\ out.status = "returned"))

\* factorial(5) has returned after nesting five calls.
C10_Witness ==
    /\ args.n = Int2Rat(5)
    /\ fpc = "done"
    /\ depth = 5
    /\ out = Return(Int2Rat(120))

====
